---- MODULE Spec2Model ----
(***************************************************************************)
(* A model of ElementSorter (src/src/elementsorter.js): the sort-condition *)
(* parser, the field and multi-key comparators, the incremental insert of  *)
(* item elements into a container and the re-sort of the container.        *)
(*                                                                         *)
(* Strings are sequences of one-character strings, so that trim, split,    *)
(* toLowerCase, endsWith and substring are computed character by           *)
(* character.  Field values are tagged records, so that the JavaScript     *)
(* relational operators can be computed on undefined, null, numbers, NaN,  *)
(* booleans and strings.                                                   *)
(***************************************************************************)
EXTENDS Integers, Sequences, FiniteSets, TLC

\* Bounds of the model.
MaxNum == 2
NumElements == 3
MaxLen == 3
MaxSegments == 2
MaxFields == 2

VARIABLES
    containerElement,       \* the container's children, in document order
    lastElements,           \* the caller's mirror array of item elements
    conditions,             \* the caller's active sort conditions
    pc,                     \* "idle", "insert" (in the for-of loop), "sort" (in the for loop)
    lastItemObjects,        \* insertElement's local array
    addElements,            \* insertElement's argument
    addIdx,                 \* number of addElements the for-of loop has taken
    targetElementIndexies,  \* sortElements' local array (0-based indexes)
    round,                  \* sortElements' loop variable
    lastElement,            \* sortElements' local reference node
    calls,                  \* the insertBefore calls the container received in this call
    entryContainer,         \* the container's children when the current call started
    entryLast,              \* lastElements when the current call started
    returned,               \* how the last call ended
    values,                 \* three field values handed to _compareField
    arrangement,            \* item objects handed to Array.prototype.sort
    results,                \* what the comparator calls returned
    expression,             \* the text handed to parseCondition
    parsed                  \* what parseCondition returned

machineVars == <<containerElement, lastElements, conditions, pc, lastItemObjects,
                 addElements, addIdx, targetElementIndexies, round, lastElement,
                 calls, entryContainer, entryLast, returned>>
compareVars == <<values, arrangement, results>>
parseVars == <<expression, parsed>>
pureVars == <<compareVars, parseVars>>
vars == <<machineVars, pureVars>>

(***************************************************************************)
(* Field values.                                                           *)
(***************************************************************************)
Undefined == [t |-> "undefined", n |-> 0, s |-> <<>>]
Null == [t |-> "null", n |-> 0, s |-> <<>>]
NaN == [t |-> "nan", n |-> 0, s |-> <<>>]
Num(n) == [t |-> "number", n |-> n, s |-> <<>>]
Bool(b) == [t |-> "boolean", n |-> IF b THEN 1 ELSE 0, s |-> <<>>]
\* a string value: s is the sequence of its UTF-16 code units
Str(s) == [t |-> "string", n |-> 0, s |-> s]

\* the value of a string of decimal digits
RECURSIVE DigitsValue(_)
DigitsValue(s) ==
    IF s = <<>> THEN 0
    ELSE 10 * DigitsValue(SubSeq(s, 1, Len(s) - 1)) + (s[Len(s)] - 48)

\* ToNumber of the relational operators: a number value or NaN
ToNumber(v) ==
    CASE v.t = "number" -> v
      [] v.t = "boolean" -> Num(v.n)
      [] v.t = "null" -> Num(0)
      [] v.t = "string" ->
            IF \A i \in 1..Len(v.s) : v.s[i] \in 48..57
            THEN Num(DigitsValue(v.s))
            ELSE NaN
      [] OTHER -> NaN

\* string < string: by code units
RECURSIVE LexLess(_, _)
LexLess(a, b) ==
    IF b = <<>> THEN FALSE
    ELSE IF a = <<>> THEN TRUE
    ELSE IF Head(a) # Head(b) THEN Head(a) < Head(b)
    ELSE LexLess(Tail(a), Tail(b))

\* leftValue < rightValue; leftValue > rightValue is LessThan(rightValue, leftValue)
LessThan(x, y) ==
    IF x.t = "string" /\ y.t = "string" THEN LexLess(x.s, y.s)
    ELSE LET nx == ToNumber(x)
             ny == ToNumber(y)
         IN  nx.t = "number" /\ ny.t = "number" /\ nx.n < ny.n

(***************************************************************************)
(* Item objects are functions from property names to field values; a       *)
(* property that is not there resolves to undefined.                       *)
(***************************************************************************)
getPropertyValueByNamePath(itemObject, namePath) ==
    IF namePath \in DOMAIN itemObject THEN itemObject[namePath] ELSE Undefined

\* a mutant of _compareField: null sorts after the defined values
compareFieldNullLast(leftItemObject, rightItemObject, namePath) ==
    LET leftValue == getPropertyValueByNamePath(leftItemObject, namePath)
        rightValue == getPropertyValueByNamePath(rightItemObject, namePath)
    IN  IF leftValue = Undefined /\ rightValue = Undefined THEN 0
        ELSE IF leftValue = Undefined THEN -1
        ELSE IF rightValue = Undefined THEN 1
        ELSE IF leftValue = Null /\ rightValue = Null THEN 0
        ELSE IF leftValue = Null THEN 1
        ELSE IF rightValue = Null THEN -1
        ELSE IF LessThan(leftValue, rightValue) THEN -1
        ELSE IF LessThan(rightValue, leftValue) THEN 1
        ELSE 0

\* a mutant of _compareField: values that are not less compare greater
compareFieldNoEqual(leftItemObject, rightItemObject, namePath) ==
    LET leftValue == getPropertyValueByNamePath(leftItemObject, namePath)
        rightValue == getPropertyValueByNamePath(rightItemObject, namePath)
    IN  IF leftValue = Undefined /\ rightValue = Undefined THEN 0
        ELSE IF leftValue = Undefined THEN -1
        ELSE IF rightValue = Undefined THEN 1
        ELSE IF leftValue = Null /\ rightValue = Null THEN 0
        ELSE IF leftValue = Null THEN -1
        ELSE IF rightValue = Null THEN 1
        ELSE IF LessThan(leftValue, rightValue) THEN -1
        ELSE 1

compareField(leftItemObject, rightItemObject, namePath) ==
    LET leftValue == getPropertyValueByNamePath(leftItemObject, namePath)
        rightValue == getPropertyValueByNamePath(rightItemObject, namePath)
    IN  IF leftValue = Undefined /\ rightValue = Undefined THEN 0
        ELSE IF leftValue = Undefined THEN -1
        ELSE IF rightValue = Undefined THEN 1
        ELSE IF leftValue = Null /\ rightValue = Null THEN 0
        ELSE IF leftValue = Null THEN -1
        ELSE IF rightValue = Null THEN 1
        ELSE IF LessThan(leftValue, rightValue) THEN -1
        ELSE IF LessThan(rightValue, leftValue) THEN 1
        ELSE 0

\* a mutant of _compare: the loop does not break, the last field that
\* distinguishes the item objects decides
compareNoBreak(leftItemObject, rightItemObject, conds) ==
    LET hits == {k \in 1..Len(conds) :
                    compareField(leftItemObject, rightItemObject, conds[k].fieldName) # 0}
    IN  IF hits = {} THEN 0
        ELSE LET k == CHOOSE i \in hits : \A j \in hits : j <= i
                 fieldResult == compareField(leftItemObject, rightItemObject,
                                             conds[k].fieldName)
             IN  IF conds[k].isAscendingOrder THEN fieldResult ELSE -fieldResult

\* a condition is [fieldName, isAscendingOrder]
RECURSIVE compare(_, _, _)
compare(leftItemObject, rightItemObject, conds) ==
    IF conds = <<>> THEN 0
    ELSE LET fieldResult == compareField(leftItemObject, rightItemObject,
                                         Head(conds).fieldName)
         IN  IF fieldResult = 0
             THEN compare(leftItemObject, rightItemObject, Tail(conds))
             ELSE IF Head(conds).isAscendingOrder THEN fieldResult
             ELSE -fieldResult

(***************************************************************************)
(* Array.prototype.sort with a comparator: the sort is stable (ECMAScript  *)
(* 2019), so with a consistent comparator the result is the one an         *)
(* insertion sort gives.                                                   *)
(***************************************************************************)
RECURSIVE InsertSorted(_, _, _)
InsertSorted(sorted, itemObject, conds) ==
    IF sorted = <<>> THEN <<itemObject>>
    ELSE IF compare(itemObject, sorted[Len(sorted)], conds) < 0
         THEN Append(InsertSorted(SubSeq(sorted, 1, Len(sorted) - 1), itemObject, conds),
                     sorted[Len(sorted)])
         ELSE Append(sorted, itemObject)

RECURSIVE ArraySort(_, _)
ArraySort(itemObjects, conds) ==
    IF itemObjects = <<>> THEN <<>>
    ELSE InsertSorted(ArraySort(SubSeq(itemObjects, 1, Len(itemObjects) - 1), conds),
                      itemObjects[Len(itemObjects)], conds)

(***************************************************************************)
(* parseCondition.                                                         *)
(***************************************************************************)
Whitespace == {" ", "\t"}

RECURSIVE trim(_)
trim(str) ==
    IF str = <<>> THEN str
    ELSE IF Head(str) \in Whitespace THEN trim(Tail(str))
    ELSE IF str[Len(str)] \in Whitespace THEN trim(SubSeq(str, 1, Len(str) - 1))
    ELSE str

toLowerCaseChar(c) ==
    CASE c = "D" -> "d"
      [] c = "E" -> "e"
      [] c = "S" -> "s"
      [] c = "C" -> "c"
      [] c = "A" -> "a"
      [] c = "B" -> "b"
      [] OTHER -> c

toLowerCase(str) == [i \in 1..Len(str) |-> toLowerCaseChar(str[i])]

endsWith(str, suffix) ==
    /\ Len(str) >= Len(suffix)
    /\ SubSeq(str, Len(str) - Len(suffix) + 1, Len(str)) = suffix

\* str.substring(from, to), 0-based and to exclusive
substring(str, from, to) == SubSeq(str, from + 1, to)

RECURSIVE split(_, _)
split(str, sep) ==
    IF \A i \in 1..Len(str) : str[i] # sep THEN <<str>>
    ELSE LET i == CHOOSE k \in 1..Len(str) :
                      str[k] = sep /\ \A j \in 1..(k - 1) : str[j] # sep
         IN  <<SubSeq(str, 1, i - 1)>> \o split(SubSeq(str, i + 1, Len(str)), sep)

\* a mutant of parseSegment: the suffix is looked for without lower-casing
parseSegmentCaseSensitive(seg) ==
    LET segment == trim(seg)
    IN  IF endsWith(segment, <<"d", "e", "s", "c">>)
        THEN [fieldName |-> trim(substring(segment, 0, Len(segment) - 4)),
              isAscendingOrder |-> FALSE]
        ELSE [fieldName |-> segment, isAscendingOrder |-> TRUE]

\* the body of parseCondition's loop
parseSegment(seg) ==
    LET segment == trim(seg)
    IN  IF endsWith(toLowerCase(segment), <<"d", "e", "s", "c">>)
        THEN [fieldName |-> trim(substring(segment, 0, Len(segment) - 4)),
              isAscendingOrder |-> FALSE]
        ELSE [fieldName |-> segment, isAscendingOrder |-> TRUE]

parseCondition(expr) ==
    IF expr = <<>> THEN <<>>
    ELSE LET segments == split(expr, ",")
         IN  [i \in 1..Len(segments) |-> parseSegment(segments[i])]

(***************************************************************************)
(* The item elements, the mapping function and the sort conditions the     *)
(* caller hands over.                                                      *)
(***************************************************************************)
Elements == 1..NumElements
\* the null reference node of insertBefore
NullNode == 0

Id == <<"i", "d">>
Type == <<"t", "y", "p", "e">>

\* the item object of an element, read from its data attributes: the elements
\* carry ids 2, 1, none, 2, ... and types 1, null, 1, ...
itemObjectMapFunc(element) ==
    LET id == CASE element % 4 = 1 -> (Id :> Num(2))
                [] element % 4 = 2 -> (Id :> Num(1))
                [] element % 4 = 3 -> <<>>
                [] OTHER -> (Id :> Num(2))
        type == CASE element % 3 = 2 -> (Type :> Null)
                  [] OTHER -> (Type :> Num(1))
    IN  id @@ type

\* an order expression of one property name, with or without the DESC suffix
OrderSegment(name, ascending) ==
    IF ascending THEN name ELSE name \o <<" ", "D", "E", "S", "C">>

\* the order expressions the caller uses: "", "id", "type DESC", "type, id DESC", ...
OrderExpressions ==
    {<<>>}
    \cup {OrderSegment(n, a) : n \in {Id, Type}, a \in BOOLEAN}
    \cup {OrderSegment(n1, a1) \o <<",", " ">> \o OrderSegment(n2, a2) :
            n1 \in {Id}, n2 \in {Type}, a1 \in BOOLEAN, a2 \in BOOLEAN}
    \cup {OrderSegment(n1, a1) \o <<",", " ">> \o OrderSegment(n2, a2) :
            n1 \in {Type}, n2 \in {Id}, a1 \in BOOLEAN, a2 \in BOOLEAN}

ConditionLists == {parseCondition(e) : e \in OrderExpressions}

\* the arrays of distinct elements of a set, of a given length
RECURSIVE ArraysOf(_, _)
ArraysOf(S, len) ==
    IF len = 0 THEN {<<>>}
    ELSE UNION {{Append(a, e) : e \in S \ {a[i] : i \in 1..Len(a)}} :
                  a \in ArraysOf(S, len - 1)}

(***************************************************************************)
(* The container (a DOM element) and the arrays.                           *)
(***************************************************************************)
IndexOf(seq, x) ==
    IF \E i \in 1..Len(seq) : seq[i] = x
    THEN CHOOSE i \in 1..Len(seq) : seq[i] = x /\ \A j \in 1..(i - 1) : seq[j] # x
    ELSE 0

\* array.splice(position, 0, x), position 0-based
splice(array, position, x) ==
    SubSeq(array, 1, position) \o <<x>> \o SubSeq(array, position + 1, Len(array))

\* container.insertBefore(node, ref): a node that is a child already is moved;
\* ref is null or a child (the DOM throws NotFoundError otherwise, and neither
\* insertElement nor sortElements passes such a node)
insertBefore(children, node, ref) ==
    IF ref = node THEN children
    ELSE LET without == SelectSeq(children, LAMBDA c : c # node)
         IN  IF ref = NullNode THEN Append(without, node)
             ELSE splice(without, IndexOf(without, ref) - 1, node)

\* lastElements.map(itemObjectMapFunc)
mapItemObjects(elements) ==
    [i \in 1..Len(elements) |-> itemObjectMapFunc(elements[i])]

(***************************************************************************)
(* _findPosition and insertElement.                                        *)
(***************************************************************************)
\* a mutant of _findPosition: the loop does not break at the first position
findPositionNoBreak(lastItems, addItemObject, conds) ==
    LET hits == {idx \in 0..(Len(lastItems) - 1) :
                    compare(addItemObject, lastItems[idx + 1], conds) < 0}
    IN  IF Len(conds) = 0 \/ hits = {} THEN -1
        ELSE CHOOSE idx \in hits : \A other \in hits : other <= idx

\* a mutant of _findPosition: a new item object that is not greater goes first
findPositionOrEqual(lastItems, addItemObject, conds) ==
    LET hits == {idx \in 0..(Len(lastItems) - 1) :
                    compare(addItemObject, lastItems[idx + 1], conds) <= 0}
    IN  IF Len(conds) = 0 \/ hits = {} THEN -1
        ELSE CHOOSE idx \in hits : \A other \in hits : idx <= other

\* the for loop of _findPosition, from index idx on
RECURSIVE findPositionFrom(_, _, _, _)
findPositionFrom(lastItems, addItemObject, conds, idx) ==
    IF ~(idx < Len(lastItems)) THEN -1
    ELSE IF compare(addItemObject, lastItems[idx + 1], conds) < 0 THEN idx
    ELSE findPositionFrom(lastItems, addItemObject, conds, idx + 1)

findPosition(lastItems, addItemObject, conds) ==
    IF Len(conds) = 0 THEN -1
    ELSE findPositionFrom(lastItems, addItemObject, conds, 0)

\* a mutant of spliceElement: the element is pushed whatever the position
spliceElementPush(array, position, x) == Append(array, x)

\* what insertElement's loop does to lastItemObjects and to lastElements
spliceElement(array, position, x) ==
    IF position = -1 THEN Append(array, x) ELSE splice(array, position, x)

\* what insertElement's loop does to the container
insertIntoContainer(children, lastElems, position, addElement) ==
    IF position = -1 THEN insertBefore(children, addElement, NullNode)
    ELSE insertBefore(children, addElement, lastElems[position + 1])

\* the reference node of that insertBefore call
insertReference(lastElems, position) ==
    IF position = -1 THEN NullNode ELSE lastElems[position + 1]

\* the caller calls insertElement with new elements and its active conditions;
\* lastElements.map(...) returns
InsertBegin ==
    /\ pc = "idle"
    /\ \E len \in 0..(MaxLen - Len(lastElements)) :
         \E adds \in ArraysOf(Elements \ {containerElement[i] :
                                            i \in 1..Len(containerElement)}, len) :
            addElements' = adds
    /\ lastItemObjects' = mapItemObjects(lastElements)
    /\ addIdx' = 0
    /\ pc' = "insert"
    /\ calls' = <<>>
    /\ entryContainer' = containerElement
    /\ entryLast' = lastElements
    /\ returned' = "none"
    /\ UNCHANGED <<containerElement, lastElements, conditions,
                   targetElementIndexies, round, lastElement>>
    /\ UNCHANGED pureVars

\* itemObjectMapFunc throws inside lastElements.map(...)
InsertBeginThrow ==
    /\ pc = "idle"
    /\ lastElements # <<>>
    /\ \E len \in 0..(MaxLen - Len(lastElements)) :
         \E adds \in ArraysOf(Elements \ {containerElement[i] :
                                            i \in 1..Len(containerElement)}, len) :
            addElements' = adds
    /\ addIdx' = 0
    /\ calls' = <<>>
    /\ entryContainer' = containerElement
    /\ entryLast' = lastElements
    /\ returned' = "throwMapLast"
    /\ UNCHANGED <<containerElement, lastElements, conditions, pc, lastItemObjects,
                   targetElementIndexies, round, lastElement>>
    /\ UNCHANGED pureVars

\* one pass of the for-of loop
InsertStep ==
    /\ pc = "insert"
    /\ addIdx < Len(addElements)
    /\ LET addElement == addElements[addIdx + 1]
           addItemObject == itemObjectMapFunc(addElement)
           position == findPosition(lastItemObjects, addItemObject, conditions)
       IN  /\ lastItemObjects' = spliceElement(lastItemObjects, position, addItemObject)
           /\ containerElement' =
                 insertIntoContainer(containerElement, lastElements, position, addElement)
           /\ calls' = Append(calls, <<addElement, insertReference(lastElements, position)>>)
           /\ lastElements' = spliceElement(lastElements, position, addElement)
    /\ addIdx' = addIdx + 1
    /\ UNCHANGED <<conditions, pc, addElements, targetElementIndexies, round,
                   lastElement, entryContainer, entryLast, returned>>
    /\ UNCHANGED pureVars

\* a mutant of InsertStepThrow: the element is in the container when the mapping throws
InsertStepThrowInserted ==
    /\ pc = "insert"
    /\ addIdx < Len(addElements)
    /\ containerElement' =
          insertBefore(containerElement, addElements[addIdx + 1], NullNode)
    /\ pc' = "idle"
    /\ returned' = "throwMapAdd"
    /\ UNCHANGED <<lastElements, conditions, lastItemObjects, addElements,
                   addIdx, targetElementIndexies, round, lastElement, calls,
                   entryContainer, entryLast>>
    /\ UNCHANGED pureVars

\* itemObjectMapFunc(addElement) throws: the call ends there
InsertStepThrow ==
    /\ pc = "insert"
    /\ addIdx < Len(addElements)
    /\ pc' = "idle"
    /\ returned' = "throwMapAdd"
    /\ UNCHANGED <<containerElement, lastElements, conditions, lastItemObjects,
                   addElements, addIdx, targetElementIndexies, round, lastElement,
                   calls, entryContainer, entryLast>>
    /\ UNCHANGED pureVars

\* the for-of loop is over
InsertReturn ==
    /\ pc = "insert"
    /\ addIdx = Len(addElements)
    /\ pc' = "idle"
    /\ returned' = "insert"
    /\ UNCHANGED <<containerElement, lastElements, conditions, lastItemObjects,
                   addElements, addIdx, targetElementIndexies, round, lastElement,
                   calls, entryContainer, entryLast>>
    /\ UNCHANGED pureVars

(***************************************************************************)
(* sortElements.                                                           *)
(***************************************************************************)
IndexName == <<"_", "_", "i", "n", "d", "e", "x">>

\* the item objects with their __index property (0-based)
indexedItemObjects(elements) ==
    [i \in 1..Len(elements) |->
        (IndexName :> Num(i - 1)) @@ itemObjectMapFunc(elements[i])]

\* itemObjects.sort(...), then itemObjects.map(item => item.__index)
sortedIndexes(elements, conds) ==
    LET itemObjects == ArraySort(indexedItemObjects(elements), conds)
    IN  [i \in 1..Len(itemObjects) |-> itemObjects[i][IndexName].n]

\* a mutant of roundContinues: the loop also runs round 0
roundContinuesToZero(r) == r >= 0

\* the condition of sortElements' for loop
roundContinues(r) == r > 0

\* a mutant of targetElementOf: the round is taken for the element's index
targetElementOfRound(lastElems, targets, r) == lastElems[r + 1]

\* lastElements[targetElementIndexies[round]]
targetElementOf(lastElems, targets, r) == lastElems[targets[r + 1] + 1]

\* the caller calls sortElements with new conditions; the item objects are
\* mapped and sorted and the loop starts
SortBegin ==
    /\ pc = "idle"
    /\ \E conds \in ConditionLists : conditions' = conds
    /\ targetElementIndexies' = sortedIndexes(lastElements, conditions')
    /\ round' = Len(lastElements) - 1
    /\ lastElement' = NullNode
    /\ pc' = "sort"
    /\ calls' = <<>>
    /\ entryContainer' = containerElement
    /\ entryLast' = lastElements
    /\ returned' = "none"
    /\ UNCHANGED <<containerElement, lastElements, lastItemObjects, addElements, addIdx>>
    /\ UNCHANGED pureVars

\* itemObjectMapFunc throws inside lastElements.map(...): nothing was sorted
SortBeginThrow ==
    /\ pc = "idle"
    /\ lastElements # <<>>
    /\ calls' = <<>>
    /\ entryContainer' = containerElement
    /\ entryLast' = lastElements
    /\ returned' = "throwSort"
    /\ UNCHANGED <<containerElement, lastElements, conditions, pc, lastItemObjects,
                   addElements, addIdx, targetElementIndexies, round, lastElement>>
    /\ UNCHANGED pureVars

\* one pass of the for loop
SortRound ==
    /\ pc = "sort"
    /\ roundContinues(round)
    /\ LET targetElement == targetElementOf(lastElements, targetElementIndexies, round)
       IN  /\ containerElement' = insertBefore(containerElement, targetElement, lastElement)
           /\ calls' = Append(calls, <<targetElement, lastElement>>)
           /\ lastElement' = targetElement
    /\ round' = round - 1
    /\ UNCHANGED <<lastElements, conditions, pc, lastItemObjects, addElements, addIdx,
                   targetElementIndexies, entryContainer, entryLast, returned>>
    /\ UNCHANGED pureVars

\* the for loop is over
SortReturn ==
    /\ pc = "sort"
    /\ ~roundContinues(round)
    /\ pc' = "idle"
    /\ returned' = "sort"
    /\ UNCHANGED <<containerElement, lastElements, conditions, lastItemObjects,
                   addElements, addIdx, targetElementIndexies, round, lastElement,
                   calls, entryContainer, entryLast>>
    /\ UNCHANGED pureVars

(***************************************************************************)
(* The specifications.                                                     *)
(***************************************************************************)
NoComparison == [kind |-> "none", ab |-> 0, ba |-> 0, bc |-> 0, ac |-> 0,
                 asc |-> <<>>, desc |-> <<>>]
NotParsed == [done |-> FALSE, out |-> <<>>]

MachineInit ==
    /\ containerElement = <<>>
    /\ lastElements = <<>>
    /\ pc = "idle"
    /\ lastItemObjects = <<>>
    /\ addElements = <<>>
    /\ addIdx = 0
    /\ targetElementIndexies = <<>>
    /\ round = 0
    /\ lastElement = NullNode
    /\ calls = <<>>
    /\ entryContainer = <<>>
    /\ entryLast = <<>>
    /\ returned = "none"

\* the container and the mirror array start empty; the caller has some conditions
Init ==
    /\ MachineInit
    /\ conditions \in ConditionLists
    /\ values = <<Undefined, Undefined, Undefined>>
    /\ arrangement = <<>>
    /\ results = NoComparison
    /\ expression = <<>>
    /\ parsed = NotParsed

Next ==
    \/ InsertBegin
    \/ InsertBeginThrow
    \/ InsertStep
    \/ InsertStepThrow
    \/ InsertReturn
    \/ SortBegin
    \/ SortBeginThrow
    \/ SortRound
    \/ SortReturn

Spec == Init /\ [][Next]_vars

\* the caller only ever inserts
InsertNext ==
    \/ InsertBegin
    \/ InsertBeginThrow
    \/ InsertStep
    \/ InsertStepThrow
    \/ InsertReturn

InsertSpec == Init /\ [][InsertNext]_vars

(***************************************************************************)
(* The comparator and the parser on their own: the inputs are drawn in the *)
(* initial state and the actions apply the functions.                      *)
(***************************************************************************)
\* the field values _compareField is tried on: undefined, null, NaN, the
\* booleans, the strings "a" and "2" and the numbers 1..MaxNum
Values ==
    {Undefined, Null, NaN, Bool(FALSE), Bool(TRUE), Str(<<97>>), Str(<<50>>)}
    \cup {Num(n) : n \in 1..MaxNum}

FieldF == <<"f">>

\* an item object whose property f has the given value
ItemWith(v) == (FieldF :> v)

Ascending == <<[fieldName |-> FieldF, isAscendingOrder |-> TRUE]>>
Descending == <<[fieldName |-> FieldF, isAscendingOrder |-> FALSE]>>

\* the item objects with the field values undefined, null, 1, 2
NullOrderItems == <<ItemWith(Undefined), ItemWith(Null), ItemWith(Num(1)), ItemWith(Num(2))>>

CompareInit ==
    /\ MachineInit
    /\ conditions = <<>>
    /\ values \in [1..3 -> Values]
    /\ arrangement \in {[i \in 1..4 |-> NullOrderItems[p[i]]] : p \in ArraysOf(1..4, 4)}
    /\ results = NoComparison
    /\ expression = <<>>
    /\ parsed = NotParsed

\* _compareField on the pairs of the three values
CallCompareField ==
    /\ results' = [kind |-> "compare",
                   ab |-> compareField(ItemWith(values[1]), ItemWith(values[2]), FieldF),
                   ba |-> compareField(ItemWith(values[2]), ItemWith(values[1]), FieldF),
                   bc |-> compareField(ItemWith(values[2]), ItemWith(values[3]), FieldF),
                   ac |-> compareField(ItemWith(values[1]), ItemWith(values[3]), FieldF),
                   asc |-> <<>>, desc |-> <<>>]
    /\ UNCHANGED <<machineVars, values, arrangement, parseVars>>

\* the arrangement sorted by f and by f DESC, as sortElements sorts
CallSort ==
    /\ results' = [kind |-> "sort", ab |-> 0, ba |-> 0, bc |-> 0, ac |-> 0,
                   asc |-> ArraySort(arrangement, Ascending),
                   desc |-> ArraySort(arrangement, Descending)]
    /\ UNCHANGED <<machineVars, values, arrangement, parseVars>>

CompareNext ==
    \/ CallCompareField
    \/ CallSort

CompareSpec == CompareInit /\ [][CompareNext]_vars

FieldG == <<"g">>
FieldH == <<"h">>

\* an item object with the properties f and g; it has no property h
ItemOf(vf, vg) == (FieldF :> vf) @@ (FieldG :> vg)

\* the condition lists of up to MaxFields of the names f, g and h, each
\* ascending or descending
KeyLists ==
    UNION {{[k \in 1..len |-> [fieldName |-> names[k], isAscendingOrder |-> dirs[k]]] :
              names \in ArraysOf({FieldF, FieldG, FieldH}, len),
              dirs \in [1..len -> BOOLEAN]} :
           len \in 0..(IF MaxFields < 3 THEN MaxFields ELSE 3)}

\* the values of the properties f and g: missing, null, not a number, numbers
KeyValues == {Undefined, Null, NaN} \cup {Num(n) : n \in 1..MaxNum}

\* the f and g values of a left and a right item object
MultiKeyInit ==
    /\ MachineInit
    /\ conditions = <<>>
    /\ values \in [1..4 -> KeyValues]
    /\ arrangement = <<>>
    /\ results = NoComparison
    /\ expression = <<>>
    /\ parsed = NotParsed

\* _compare on the two item objects, both ways, under some conditions
CallCompare ==
    /\ \E conds \in KeyLists :
          results' = [kind |-> "multikey",
                      conds |-> conds,
                      lr |-> compare(ItemOf(values[1], values[2]),
                                     ItemOf(values[3], values[4]), conds),
                      rl |-> compare(ItemOf(values[3], values[4]),
                                     ItemOf(values[1], values[2]), conds)]
    /\ UNCHANGED <<machineVars, values, arrangement, parseVars>>

MultiKeyNext == CallCompare

MultiKeySpec == MultiKeyInit /\ [][MultiKeyNext]_vars

\* the pieces the order expressions are put together from
Pads == {<<>>, <<" ">>}
Names == {<<>>, <<"a">>, <<"b">>}
Suffixes == {<<>>, <<"D", "E", "S", "C">>, <<"d", "E", "s", "c">>, <<"E", "S", "C">>}

\* a name, with or without a suffix, bare or with white space before or after it
Segments ==
    {name \o sep \o suffix : name \in Names, sep \in Pads, suffix \in Suffixes}
    \cup {<<" ">> \o name \o sep \o suffix :
            name \in Names, sep \in Pads, suffix \in Suffixes}
    \cup {name \o <<" ">> \o suffix \o <<" ">> : name \in Names, suffix \in Suffixes}

\* the expressions of n segments
RECURSIVE ExpressionsOf(_)
ExpressionsOf(n) ==
    IF n = 1 THEN Segments
    ELSE {e \o <<",">> \o seg : e \in ExpressionsOf(n - 1), seg \in Segments}

ParseInit ==
    /\ MachineInit
    /\ conditions = <<>>
    /\ values = <<Undefined, Undefined, Undefined>>
    /\ arrangement = <<>>
    /\ results = NoComparison
    /\ \E n \in 1..MaxSegments : expression \in ExpressionsOf(n)
    /\ parsed = NotParsed

CallParseCondition ==
    /\ parsed' = [done |-> TRUE, out |-> parseCondition(expression)]
    /\ UNCHANGED <<machineVars, compareVars, expression>>

ParseNext == CallParseCondition

ParseSpec == ParseInit /\ [][ParseNext]_vars

(***************************************************************************)
(* The properties.                                                         *)
(***************************************************************************)
ElementsOf(seq) == {seq[i] : i \in 1..Len(seq)}

\* no consecutive pair of the elements' item objects compares positive
NoInversion(elements, conds) ==
    \A i \in 1..(Len(elements) - 1) :
        compare(itemObjectMapFunc(elements[i]), itemObjectMapFunc(elements[i + 1]),
                conds) <= 0

\* the elements of seq that are in S, in the order of seq
Restrict(seq, S) == SelectSeq(seq, LAMBDA e : e \in S)

\* how often x is in seq
Occurrences(seq, x) == Cardinality({i \in 1..Len(seq) : seq[i] = x})

\* C1: starting from an empty lastElements, after any sequence of
\* insertElement calls with the same conditions, whatever the arrival order
\* and the batches, no consecutive pair of lastElements' item objects
\* compares positive.
C1_InsertKeepsSorted == NoInversion(lastElements, conditions)

\* three elements arrived in more than one call, under two conditions, the
\* last of them before an element that was there
C1_Witness ==
    /\ returned = "insert"
    /\ Len(lastElements) = 3
    /\ entryLast # <<>>
    /\ Len(conditions) = 2
    /\ \E i \in 1..Len(calls) : calls[i][2] # NullNode

\* the order of the children is the stable sort of the array: of two children
\* the earlier one compares less, or equal with the smaller index in the array
StableSortOf(children, array, conds) ==
    /\ Len(children) = Len(array)
    /\ ElementsOf(children) = ElementsOf(array)
    /\ \A i \in 1..Len(children) : \A j \in (i + 1)..Len(children) :
          LET c == compare(itemObjectMapFunc(children[i]),
                           itemObjectMapFunc(children[j]), conds)
          IN  \/ c < 0
              \/ c = 0 /\ IndexOf(array, children[i]) < IndexOf(array, children[j])

\* C2: after sortElements on a container whose children are exactly the
\* elements of lastElements, in any order, the children are a permutation of
\* the elements in the order a stable sort of lastElements by the
\* conditions gives, so no consecutive pair of children compares positive.
C2_ResortIsStableSort ==
    (returned = "sort" /\ ElementsOf(entryContainer) = ElementsOf(entryLast)
        /\ Len(entryContainer) = Len(entryLast))
    => /\ StableSortOf(containerElement, entryLast, conditions)
       /\ NoInversion(containerElement, conditions)

\* a re-sort of three children that changed their order and kept a tie in
\* the order of the array
C2_Witness ==
    /\ returned = "sort"
    /\ Len(containerElement) = 3
    /\ containerElement # entryContainer
    /\ conditions # <<>>
    /\ \E i \in 1..2 :
          compare(itemObjectMapFunc(containerElement[i]),
                  itemObjectMapFunc(containerElement[i + 1]), conditions) = 0

\* C3: when sortElements returns, lastElements lists the elements in the new
\* order: it equals the container's children.
C3_MirrorFollowsResort ==
    returned = "sort" => lastElements = containerElement

\* C4: between the calls of any sequence of insertElement and sortElements
\* calls, each insert with the active conditions, the container's children
\* have no inversion under the active conditions.
C4_ContainerSortedBetweenCalls ==
    pc = "idle" => NoInversion(containerElement, conditions)

\* C5: sortElements on n >= 1 elements calls insertBefore n - 1 times,
\* whatever the order before and after, and never with the element that is
\* first in the target order as the node.
C5_ResortMoves ==
    /\ (returned = "sort" /\ Len(lastElements) >= 1)
          => Len(calls) = Len(lastElements) - 1
    /\ (pc = "sort" \/ returned = "sort")
          => \A i \in 1..Len(calls) :
                calls[i][1] # lastElements[targetElementIndexies[1] + 1]

\* a re-sort of three children that were in the target order already
C5_Witness ==
    /\ returned = "sort"
    /\ Len(lastElements) = 3
    /\ entryContainer = containerElement
    /\ Len(calls) = 2

\* C6: when the children equal lastElements before an insertElement call of
\* new elements, they equal lastElements after every pass of the loop and
\* after the call; the elements that were there keep their order and every
\* element taken so far is there once.
C6_InsertLockStep ==
    ((pc = "insert" \/ returned = "insert") /\ entryContainer = entryLast
        /\ ElementsOf(addElements) \cap ElementsOf(entryContainer) = {})
    => /\ containerElement = lastElements
       /\ Restrict(lastElements, ElementsOf(entryLast)) = entryLast
       /\ Len(lastElements) = Len(entryLast) + addIdx
       /\ \A i \in 1..addIdx : Occurrences(lastElements, addElements[i]) = 1
       /\ returned = "insert" => addIdx = Len(addElements)

\* two passes of the loop into a container that had a child, one of them
\* before a child
C6_Witness ==
    /\ pc = "insert"
    /\ addIdx = 2
    /\ entryLast # <<>>
    /\ entryContainer = entryLast
    /\ \E i \in 1..Len(calls) : calls[i][2] # NullNode

\* C7: when itemObjectMapFunc throws on the k-th new element, the call ends
\* with the exception, the k - 1 elements before it are in the container and
\* in lastElements and the k-th and later ones are in neither; when it throws
\* on an element of lastElements at the start of the call, the container and
\* lastElements are as they were.
C7_ThrowLeavesPrefix ==
    /\ returned = "throwMapAdd" =>
          /\ pc = "idle"
          /\ addIdx < Len(addElements)
          /\ ElementsOf(containerElement) =
                ElementsOf(entryContainer) \cup {addElements[i] : i \in 1..addIdx}
          /\ ElementsOf(lastElements) =
                ElementsOf(entryLast) \cup {addElements[i] : i \in 1..addIdx}
          /\ Len(containerElement) = Len(entryContainer) + addIdx
          /\ Len(lastElements) = Len(entryLast) + addIdx
          /\ \A i \in (addIdx + 1)..Len(addElements) :
                /\ addElements[i] \notin ElementsOf(containerElement)
                /\ addElements[i] \notin ElementsOf(lastElements)
    /\ returned = "throwMapLast" =>
          /\ pc = "idle"
          /\ containerElement = entryContainer
          /\ lastElements = entryLast

\* the mapping threw on the second of two new elements
C7_Witness ==
    /\ returned = "throwMapAdd"
    /\ addIdx = 1
    /\ Len(addElements) = 2
    /\ addElements[1] \in ElementsOf(containerElement)

\* the natural order of two values that are neither undefined nor null
NaturalOrder(a, b) ==
    IF LessThan(a, b) THEN -1 ELSE IF LessThan(b, a) THEN 1 ELSE 0

\* the undefined and null policy for _compareField(a, b) = r
NullPolicy(a, b, r) ==
    /\ (a = Undefined /\ b = Undefined) => r = 0
    /\ (a = Undefined /\ b # Undefined) => r = -1
    /\ (a # Undefined /\ b = Undefined) => r = 1
    /\ (a = Null /\ b = Null) => r = 0
    /\ (a = Null /\ b \notin {Undefined, Null}) => r = -1
    /\ (b = Null /\ a \notin {Undefined, Null}) => r = 1
    /\ (a \notin {Undefined, Null} /\ b \notin {Undefined, Null}) => r = NaturalOrder(a, b)

Reverse(seq) == [i \in 1..Len(seq) |-> seq[Len(seq) + 1 - i]]

\* C8: _compareField applies the undefined and null policy before it
\* compares values, and otherwise returns the natural order; so the values
\* undefined, null, 1, 2, in any arrangement, sort to that order ascending
\* and to 2, 1, null, undefined descending.
C8_NullPolicy ==
    /\ results.kind = "compare" =>
          /\ NullPolicy(values[1], values[2], results.ab)
          /\ NullPolicy(values[2], values[1], results.ba)
          /\ NullPolicy(values[2], values[3], results.bc)
          /\ NullPolicy(values[1], values[3], results.ac)
    /\ results.kind = "sort" =>
          /\ results.asc = NullOrderItems
          /\ results.desc = Reverse(NullOrderItems)

\* null on the left of undefined, and the reverse
C8_Witness ==
    /\ results.kind = "compare"
    /\ values[1] = Null
    /\ values[2] = Undefined
    /\ results.ab = 1
    /\ results.ba = -1

\* C9, as stated: for all values a, b, c, _compareField(a, b) =
\* -_compareField(b, a), and _compareField is transitive.
C9_TotalPreorder ==
    results.kind = "compare" =>
        /\ results.ab = -results.ba
        /\ (results.ab <= 0 /\ results.bc <= 0) => results.ac <= 0

\* values that the relational operators order: undefined, null, and values
\* of one type that are not NaN
Comparable(vs) ==
    \E type \in {"number", "string", "boolean"} :
        \A i \in DOMAIN vs : vs[i].t \in {"undefined", "null", type}

\* C9, amended: _compareField(a, b) = -_compareField(b, a) for all values,
\* and _compareField is transitive on undefined, null and the values of one
\* type that are not NaN.
C9_PreorderOnComparable ==
    results.kind = "compare" =>
        /\ results.ab = -results.ba
        /\ (Comparable(values) /\ results.ab <= 0 /\ results.bc <= 0) => results.ac <= 0

\* null, 1 and 2, in that order
C9_Witness ==
    /\ results.kind = "compare"
    /\ values = <<Null, Num(1), Num(2)>>
    /\ results.ab = -1
    /\ results.bc = -1
    /\ results.ac = -1

\* the positions of the commas of an expression
CommaPositions(expr) == {i \in 1..Len(expr) : expr[i] = ","}

\* the position of the k-th comma; 0 before the first segment and
\* Len(expr) + 1 after the last
CommaAt(expr, k) ==
    IF k = 0 THEN 0
    ELSE IF k > Cardinality(CommaPositions(expr)) THEN Len(expr) + 1
    ELSE CHOOSE p \in CommaPositions(expr) :
            Cardinality({q \in CommaPositions(expr) : q < p}) = k - 1

\* the k-th comma-separated segment
SegmentAt(expr, k) == SubSeq(expr, CommaAt(expr, k - 1) + 1, CommaAt(expr, k) - 1)

\* str without the white space around it
Trimmed(str) ==
    LET inked == {i \in 1..Len(str) : str[i] \notin Whitespace}
    IN  IF inked = {} THEN <<>>
        ELSE SubSeq(str, CHOOSE i \in inked : \A j \in inked : i <= j,
                         CHOOSE i \in inked : \A j \in inked : j <= i)

\* str ends with DESC in any letter case
HasDescMarker(str) ==
    /\ Len(str) >= 4
    /\ str[Len(str) - 3] \in {"d", "D"}
    /\ str[Len(str) - 2] \in {"e", "E"}
    /\ str[Len(str) - 1] \in {"s", "S"}
    /\ str[Len(str)] \in {"c", "C"}

\* the condition of a segment
ConditionOf(seg) ==
    IF HasDescMarker(Trimmed(seg))
    THEN [fieldName |-> Trimmed(SubSeq(Trimmed(seg), 1, Len(Trimmed(seg)) - 4)),
          isAscendingOrder |-> FALSE]
    ELSE [fieldName |-> Trimmed(seg), isAscendingOrder |-> TRUE]

\* C10: parseCondition returns one condition per comma-separated segment, in
\* order, and none for the empty string; a segment is descending exactly
\* when, trimmed, it ends with DESC in any letter case, and its name is then
\* the segment without those four characters, trimmed, and else the trimmed
\* segment.
C10_ParseCondition ==
    parsed.done =>
        IF expression = <<>> THEN parsed.out = <<>>
        ELSE /\ Len(parsed.out) = Cardinality(CommaPositions(expression)) + 1
             /\ \A k \in 1..Len(parsed.out) :
                   parsed.out[k] = ConditionOf(SegmentAt(expression, k))

\* "a DESC, b" parsed
C10_Witness ==
    /\ parsed.done
    /\ expression = <<"a", " ", "D", "E", "S", "C", ",", " ", "b">>
    /\ parsed.out = <<[fieldName |-> <<"a">>, isAscendingOrder |-> FALSE],
                      [fieldName |-> <<"b">>, isAscendingOrder |-> TRUE]>>

\* the indexes of lastElements whose item object the new element's one is
\* less than
LessThanAt(element) ==
    {i \in 1..Len(lastElements) :
        compare(itemObjectMapFunc(element), itemObjectMapFunc(lastElements[i]),
                conditions) < 0}

\* C11: a pass of insertElement's loop puts the new element at the first
\* index of lastElements where it compares less, before the element that was
\* there, and at the end when there is none; so, in a sorted lastElements, it
\* comes after every element it compares equal to, and with no conditions
\* every new element is appended: the new elements follow the earlier ones
\* in arrival order.
C11_InsertPosition ==
    [][/\ (pc = "insert" /\ pc' = "insert" /\ addIdx' = addIdx + 1) =>
            LET new == addElements[addIdx + 1]
                less == LessThanAt(new)
            IN  /\ less = {} =>
                      /\ lastElements' = Append(lastElements, new)
                      /\ calls' = Append(calls, <<new, NullNode>>)
                /\ less # {} =>
                      LET first == CHOOSE i \in less : \A j \in less : i <= j
                      IN  /\ lastElements' = SubSeq(lastElements, 1, first - 1)
                                \o <<new>>
                                \o SubSeq(lastElements, first, Len(lastElements))
                          /\ calls' = Append(calls, <<new, lastElements[first]>>)
                /\ NoInversion(lastElements, conditions) =>
                      \A i \in 1..Len(lastElements) :
                          compare(itemObjectMapFunc(new),
                                  itemObjectMapFunc(lastElements[i]), conditions) = 0
                          => i < IndexOf(lastElements', new)
                /\ conditions = <<>> => lastElements' = Append(lastElements, new)
       /\ (pc = "insert" /\ returned' = "insert" /\ conditions = <<>>) =>
            lastElements' = entryLast \o addElements
      ]_vars

\* a pass has put a new element after an element it compares equal to and
\* before another one
C11_Witness ==
    /\ pc = "insert"
    /\ addIdx >= 1
    /\ conditions # <<>>
    /\ LET p == IndexOf(lastElements, addElements[addIdx])
       IN  /\ 1 < p
           /\ p < Len(lastElements)
           /\ calls[Len(calls)] = <<addElements[addIdx], lastElements[p + 1]>>
           /\ compare(itemObjectMapFunc(lastElements[p]),
                      itemObjectMapFunc(lastElements[p - 1]), conditions) = 0

\* the fields of a condition list that distinguish the two item objects
Distinguishing(left, right, conds) ==
    {k \in 1..Len(conds) : compareField(left, right, conds[k].fieldName) # 0}

\* C12: _compare returns the _compareField result of the first condition,
\* in list order, whose result is not 0, negated when the condition is
\* descending, and 0 when there is none or the list is empty; the conditions
\* after that one do not change the result; and _compare(left, right) =
\* -_compare(right, left).
C12_FirstDistinguishingField ==
    results.kind = "multikey" =>
        LET left == ItemOf(values[1], values[2])
            right == ItemOf(values[3], values[4])
            conds == results.conds
            hits == Distinguishing(left, right, conds)
        IN  /\ hits = {} => results.lr = 0
            /\ hits # {} =>
                  LET k == CHOOSE i \in hits : \A j \in hits : i <= j
                      fieldResult == compareField(left, right, conds[k].fieldName)
                  IN  /\ results.lr =
                            IF conds[k].isAscendingOrder THEN fieldResult ELSE -fieldResult
                      /\ results.lr = compare(left, right, SubSeq(conds, 1, k))
            /\ results.lr = -results.rl

\* f ties, g distinguishes and is descending, under "f, g DESC"
C12_Witness ==
    /\ results.kind = "multikey"
    /\ values = <<Num(1), Num(1), Num(1), Num(2)>>
    /\ results.conds = <<[fieldName |-> FieldF, isAscendingOrder |-> TRUE],
                         [fieldName |-> FieldG, isAscendingOrder |-> FALSE]>>
    /\ results.lr = 1
    /\ results.rl = -1

====
